---------------------------- MODULE Spec2Model ----------------------------
(***************************************************************************)
(* Model of wrench/headless.py and wrench/run_tests.py (servo/webrender).  *)
(*                                                                         *)
(* Python strings are sequences of ASCII codes, so that startswith, the    *)
(* path joins and the string order used by sorted() are computed and not   *)
(* assumed.  Tokens that the scripts only pass on (argv items, error       *)
(* class names, program counters) are TLA+ strings.                        *)
(***************************************************************************)
EXTENDS Integers, Sequences, FiniteSets, TLC

VARIABLES
    platform,         \* sys.platform
    script,           \* which entry point runs: "headless", "run_tests", or the "twice" driver
    argv,             \* sys.argv[1:]
    buildExists,      \* whether dirname(bin_path)/build is a directory
    entries,          \* the build directory: entry name -> modified time
    cwd,              \* the process's working directory (absolute path)
    env,              \* os.environ restricted to EnvVars
    pc,               \* position in the script
    call,             \* which find_dep_path_newest call of set_osmesa_env runs (0: none)
    previous_path,    \* cd(): previous_path
    candidates,       \* find_dep_path_newest: candidates (full paths, listing order)
    candidate_times,  \* find_dep_path_newest: (mtime, path) pairs read so far / sorted
    ret,              \* value returned by the last find_dep_path_newest call
    osmesa_path,      \* set_osmesa_env: osmesa_path
    error,            \* the exception that ended the run ("none" while none)
    launched,         \* external commands run so far (argument vectors)
    rcs,              \* the return codes of those commands
    printed,          \* what was written to stdout, in order
    env0,             \* history: os.environ when the script started
    cwd0,             \* history: working directory when find_dep_path_newest was called
    listing,          \* history: the names glob produced in the last call, in order
    scans,            \* history: number of find_dep_path_newest calls made
    round,            \* "twice" driver: which set_osmesa_env call runs
    env1,             \* "twice" driver: os.environ after the first call
    ext,              \* number of changes the external build process made
    raced             \* an external change happened since set_osmesa_env was entered

vars == <<platform, script, argv, buildExists, entries, cwd, env, pc,
          call, previous_path, candidates, candidate_times, ret, osmesa_path,
          error, launched, rcs, printed, env0, cwd0, listing, scans, round, env1,
          ext, raced>>

---------------------------------------------------------------------------
(* Bounds *)

MaxTime == 2       \* modified times range over 1..MaxTime
MaxArgs == 1       \* at most this many caller arguments
MaxExternal == 1   \* at most this many changes by the external build process

---------------------------------------------------------------------------
(* String literals of the source, as ASCII codes *)

PACKAGE == <<111, 115, 109, 101, 115, 97, 45, 115, 114, 99>>  \* 'osmesa-src'
BIN_PATH == <<46, 46, 47, 116, 97, 114, 103, 101, 116, 47, 114, 101, 108, 101, 97, 115, 101, 47>>  \* '../target/release/'
BUILD == <<98, 117, 105, 108, 100>>  \* "build"
DASH == <<45>>  \* '-'
SLASH == <<47>>  \* '/'
COLON == <<58>>  \* ":"
LINUX == <<108, 105, 110, 117, 120>>  \* 'linux'
DARWIN == <<100, 97, 114, 119, 105, 110>>  \* 'darwin'
SOFTPIPE == <<115, 111, 102, 116, 112, 105, 112, 101>>  \* "softpipe"
OUT == <<111, 117, 116>>  \* "out"
LIB == <<108, 105, 98>>  \* "lib"
GALLIUM == <<103, 97, 108, 108, 105, 117, 109>>  \* "gallium"
SRC == <<115, 114, 99>>  \* "src"
TARGETS == <<116, 97, 114, 103, 101, 116, 115>>  \* "targets"
OSMESA == <<111, 115, 109, 101, 115, 97>>  \* "osmesa"
DOTLIBS == <<46, 108, 105, 98, 115>>  \* ".libs"
MAPI == <<109, 97, 112, 105>>  \* "mapi"
SHARED_GLAPI == <<115, 104, 97, 114, 101, 100, 45, 103, 108, 97, 112, 105>>  \* "shared-glapi"

LinuxSuffix == <<OUT, LIB, GALLIUM>>
OsmesaSuffix == <<OUT, SRC, GALLIUM, TARGETS, OSMESA, DOTLIBS>>
GlapiSuffix == <<OUT, SRC, MAPI, SHARED_GLAPI, DOTLIBS>>

(* Values of the surroundings the scripts run in *)

LINUX2 == <<108, 105, 110, 117, 120, 50>>  \* sys.platform 'linux2' (Python 2)
WIN32 == <<119, 105, 110, 51, 50>>  \* sys.platform 'win32'
FREEBSD == <<102, 114, 101, 101, 98, 115, 100, 49, 50>>  \* sys.platform 'freebsd12'
Platforms == {LINUX, LINUX2, DARWIN, WIN32, FREEBSD}

N1 == <<111, 115, 109, 101, 115, 97, 45, 115, 114, 99, 45, 49>>  \* entry 'osmesa-src-1'
N2 == <<111, 115, 109, 101, 115, 97, 45, 115, 114, 99, 45, 50>>  \* entry 'osmesa-src-2'
N3 == <<111, 115, 109, 101, 115, 97, 45, 115, 114, 99, 45, 49, 48>>  \* entry 'osmesa-src-10'
N4 == <<111, 115, 109, 101, 115, 97, 45, 115, 114, 99>>  \* entry 'osmesa-src' (no '-' after the prefix)
Names == {N1, N2, N3, N4}

START_DIR == <<47, 119, 47, 119, 114, 101, 110, 99, 104>>  \* '/w/wrench'
BUILD_DIR == <<47, 119, 47, 116, 97, 114, 103, 101, 116, 47, 114, 101, 108, 101, 97, 115, 101, 47, 98, 117, 105, 108, 100>>  \* '/w/target/release/build'
USR_LIB == <<47, 117, 115, 114, 47, 108, 105, 98>>  \* '/usr/lib'
LLVMPIPE == <<108, 108, 118, 109, 112, 105, 112, 101>>  \* 'llvmpipe'

EnvVars == {"LD_LIBRARY_PATH", "DYLD_LIBRARY_PATH", "GALLIUM_DRIVER", "PATH"}
Unset == <<-1>>      \* a variable absent from os.environ
None == <<-2>>       \* Python's None
NoValue == <<-3>>    \* a local that has not been assigned

---------------------------------------------------------------------------
(* Python string and os.path operations *)

\* str.startswith
StartsWith(s, p) == Len(s) >= Len(p) /\ SubSeq(s, 1, Len(p)) = p

\* str.endswith
EndsWith(s, p) == Len(s) >= Len(p) /\ SubSeq(s, Len(s) - Len(p) + 1, Len(s)) = p

\* str.__lt__: code point order, a proper prefix is smaller
RECURSIVE StrLess(_, _)
StrLess(a, b) ==
    IF b = <<>> THEN FALSE
    ELSE IF a = <<>> THEN TRUE
    ELSE IF Head(a) # Head(b) THEN Head(a) < Head(b)
    ELSE StrLess(Tail(a), Tail(b))

\* str.rfind('/') + 1: the length of the part up to and including the last '/'
RECURSIVE LastSlash(_, _)
LastSlash(p, i) ==
    IF i = 0 THEN 0
    ELSE IF p[i] = 47 THEN i
    ELSE LastSlash(p, i - 1)

\* str.rstrip('/')
RECURSIVE RStripSlash(_)
RStripSlash(s) ==
    IF s # <<>> /\ s[Len(s)] = 47 THEN RStripSlash(SubSeq(s, 1, Len(s) - 1)) ELSE s

\* posixpath.split(p)[0]
PathSplitHead(p) ==
    LET head == SubSeq(p, 1, LastSlash(p, Len(p)))
    IN  IF head # <<>> /\ RStripSlash(head) # <<>> THEN RStripSlash(head) ELSE head

\* posixpath.join(a, b)
PathJoin(a, b) ==
    IF StartsWith(b, SLASH) THEN b
    ELSE IF a = <<>> \/ EndsWith(a, SLASH) THEN a \o b
    ELSE a \o SLASH \o b

\* posixpath.join(a, *parts)
RECURSIVE PathJoinAll(_, _)
PathJoinAll(a, parts) ==
    IF parts = <<>> THEN a ELSE PathJoinAll(PathJoin(a, Head(parts)), Tail(parts))

\* variant: None is taken for a string and joined like one
JoinNeverRaises(a) == FALSE

\* posixpath.join raises when its first argument is None (TypeError on
\* Python 3, AttributeError on Python 2; the model calls it "TypeError")
JoinRaises(a) == a = None

\* variant: the pairs are compared by modified time alone (key=lambda t: t[0])
PairLessTimeOnly(a, b) == a[1] < b[1]

\* tuple.__lt__ on (mtime, path) pairs
PairLess(a, b) == a[1] < b[1] \/ (a[1] = b[1] /\ StrLess(a[2], b[2]))

\* sorted(..., reverse=True): insertion of x into a descending sequence,
\* after the elements that are not smaller (equal elements keep their order)
RECURSIVE InsertDesc(_, _)
InsertDesc(x, s) ==
    IF s = <<>> THEN <<x>>
    ELSE IF PairLess(Head(s), x) THEN <<x>> \o s
    ELSE <<Head(s)>> \o InsertDesc(x, Tail(s))

\* variant: the pairs are left in the order of the listing
Unsorted(s) == s

RECURSIVE SortedDesc(_)
SortedDesc(s) ==
    IF s = <<>> THEN <<>>
    ELSE InsertDesc(s[Len(s)], SortedDesc(SubSeq(s, 1, Len(s) - 1)))

\* the orders in which a directory listing can produce the names of S
Orders(S) ==
    {f \in [1..Cardinality(S) -> S] : \A i, j \in 1..Cardinality(S) : i # j => f[i] # f[j]}

\* variant: the pattern is package + '*'
GlobMatchNoDash(package, name) == StartsWith(name, package)

\* fnmatch of a name against pattern package + '-*'
GlobMatch(package, name) == StartsWith(name, package \o DASH)


---------------------------------------------------------------------------
(* The filesystem as the process sees it *)

\* the directory os.chdir(p) / a relative path p leads to from directory d
ResolveDir(d, p) ==
    IF StartsWith(p, SLASH) THEN p
    ELSE IF d = START_DIR /\ p = PathJoin(PathSplitHead(BIN_PATH), BUILD) THEN BUILD_DIR
    ELSE NoValue

\* variant: the change of directory never fails
ChdirAlwaysOk(d, p) == TRUE

\* os.chdir(p) succeeds: p leads to an existing directory
ChdirOk(d, p) ==
    \/ ResolveDir(d, p) = START_DIR
    \/ ResolveDir(d, p) = BUILD_DIR /\ buildExists

\* the names os.listdir gives glob for directory d; glob swallows a failed
\* listing and yields nothing
ListDir(d) == IF d = BUILD_DIR /\ buildExists THEN DOMAIN entries ELSE {}

\* the entries that path c, read from directory d, names
EntryAt(d, c) ==
    {n \in DOMAIN entries :
        /\ buildExists
        /\ d = START_DIR
        /\ c = PathJoin(PathJoin(PathSplitHead(BIN_PATH), BUILD), n)}

\* path.getmtime(c) raises OSError when c names nothing
MtimeOk(d, c) == EntryAt(d, c) # {}

\* path.getmtime(c)
GetMtime(d, c) == entries[CHOOSE n \in EntryAt(d, c) : TRUE]

---------------------------------------------------------------------------
(* Pieces of the code that the actions use *)

\* variant: sys.platform == 'linux'
IsLinuxExact(p) == p = LINUX

\* is_linux()
IsLinux(p) == StartsWith(p, LINUX)

\* is_macosx()
IsMacosx(p) == p = DARWIN

\* deps_path = path.join(path.split(bin_path)[0], "build")
DepsPath(bin_path) == PathJoin(PathSplitHead(bin_path), BUILD)

\* variant: cd() without the finally clause
CdStay(prev, cur) == cur

\* cd(): the finally clause, os.chdir(previous_path)
CdRestore(prev, cur) == prev

\* candidates = (path.join(deps_path, c) for c in candidates)
FullPaths(deps_path, names) == [i \in 1..Len(names) |-> PathJoin(deps_path, names[i])]

\* variant: candidate_times[-1][1]
Oldest(times) == IF Len(times) > 0 THEN times[Len(times)][2] ELSE None

\* if len(candidate_times) > 0: return candidate_times[0][1]; return None
Newest(times) == IF Len(times) > 0 THEN times[1][2] ELSE None

\* variant: the value is appended to the one already there
SetEnvAppend(e, k, v) == [e EXCEPT ![k] = IF @ = Unset THEN v ELSE @ \o COLON \o v]

\* os.environ[k] = v
SetEnv(e, k, v) == [e EXCEPT ![k] = v]

\* osmesa_path + ":" + glapi_path
DyldValue(o, g) == o \o COLON \o g

\* variant: subprocess.call, which hands the return code back
CheckCallIgnores(rc) == FALSE

\* subprocess.check_call raises CalledProcessError on a non-zero return code
CheckCallRaises(rc) == rc # 0

\* where the script goes on after set_osmesa_env returned
AfterEnv ==
    CASE script = "headless" -> "launch"
      [] script = "run_tests" -> "show"
      [] OTHER -> "returned"

Raise(e) == /\ pc' = "failed"
            /\ error' = e

history == <<env0, round, env1>>
files == <<buildExists, entries, ext>>
locals == <<call, previous_path, candidates, candidate_times, ret, osmesa_path,
            cwd0, listing, scans>>
outside == <<launched, rcs, printed>>
fixed == <<platform, script, argv>>

---------------------------------------------------------------------------
(* Initial states *)

EntrySets == UNION {[D -> 1..MaxTime] : D \in SUBSET Names}

Args == UNION {[1..n -> {"test.yaml"}] : n \in 0..MaxArgs}

EnvClean == [k \in EnvVars |-> IF k = "PATH" THEN USR_LIB ELSE Unset]
EnvPreset == [k \in EnvVars |-> IF k = "GALLIUM_DRIVER" THEN LLVMPIPE ELSE USR_LIB]

InitCommon ==
    /\ platform \in Platforms
    /\ buildExists \in BOOLEAN
    /\ entries \in EntrySets
    /\ ~buildExists => entries = <<>>
    /\ cwd = START_DIR
    /\ env \in {EnvClean, EnvPreset}
    /\ env0 = env
    /\ env1 = env
    /\ call = 0
    /\ previous_path = NoValue
    /\ candidates = <<>>
    /\ candidate_times = <<>>
    /\ ret = NoValue
    /\ osmesa_path = NoValue
    /\ error = "none"
    /\ launched = <<>>
    /\ rcs = <<>>
    /\ printed = <<>>
    /\ cwd0 = cwd
    /\ listing = <<>>
    /\ scans = 0
    /\ round = 1
    /\ ext = 0
    /\ raced = FALSE

Init ==
    /\ InitCommon
    /\ script \in {"headless", "run_tests"}
    /\ argv \in Args
    /\ pc = IF script = "headless" THEN "build" ELSE "set_osmesa_env"

---------------------------------------------------------------------------
(* find_dep_path_newest *)

\* with cd(deps_path): previous_path = os.getcwd(); os.chdir(new_path), and on
\* failure the finally clause and the exception
Chdir ==
    /\ pc = "chdir"
    /\ previous_path' = cwd
    /\ cwd0' = cwd
    /\ scans' = scans + 1
    /\ listing' = <<>>
    /\ ret' = NoValue
    /\ IF ChdirOk(cwd, DepsPath(BIN_PATH))
       THEN /\ cwd' = ResolveDir(cwd, DepsPath(BIN_PATH))
            /\ pc' = "glob"
            /\ error' = error
       ELSE /\ cwd' = CdRestore(cwd, cwd)
            /\ Raise("OSError")
    /\ UNCHANGED <<fixed, files, env, call, candidates, candidate_times,
                   osmesa_path, outside, history, raced>>

\* candidates = glob(package + '-*'), leaving the with block, and the path
\* joins of the candidates generator
Glob ==
    /\ pc = "glob"
    /\ \E order \in Orders({n \in ListDir(cwd) : GlobMatch(PACKAGE, n)}) :
          /\ listing' = order
          /\ candidates' = FullPaths(DepsPath(BIN_PATH), order)
    /\ candidate_times' = <<>>
    /\ cwd' = CdRestore(previous_path, cwd)
    /\ pc' = "getmtime"
    /\ UNCHANGED <<fixed, files, env, call, previous_path, ret, osmesa_path, error,
                   outside, history, cwd0, scans, raced>>

\* one step of ((path.getmtime(c), c) for c in candidates)
ReadMtime ==
    /\ pc = "getmtime"
    /\ Len(candidate_times) < Len(candidates)
    /\ LET c == candidates[Len(candidate_times) + 1]
       IN  IF MtimeOk(cwd, c)
           THEN /\ candidate_times' = Append(candidate_times, <<GetMtime(cwd, c), c>>)
                /\ UNCHANGED <<pc, error>>
           ELSE /\ Raise("OSError")
                /\ UNCHANGED candidate_times
    /\ UNCHANGED <<fixed, files, cwd, env, call, previous_path, candidates, ret,
                   osmesa_path, outside, history, cwd0, listing, scans, raced>>

\* sorted(..., reverse=True) and the return
SortAndReturn ==
    /\ pc = "getmtime"
    /\ Len(candidate_times) = Len(candidates)
    /\ candidate_times' = SortedDesc(candidate_times)
    /\ ret' = Newest(candidate_times')
    /\ pc' = "join"
    /\ UNCHANGED <<fixed, files, cwd, env, call, previous_path, candidates,
                   osmesa_path, error, outside, history, cwd0, listing, scans, raced>>

---------------------------------------------------------------------------
(* set_osmesa_env *)

\* the platform test; on Linux and macOS the first find_dep_path_newest call
SetOsmesaEnv ==
    /\ pc = "set_osmesa_env"
    /\ raced' = FALSE
    /\ IF IsLinux(platform) \/ IsMacosx(platform)
       THEN /\ call' = 1
            /\ pc' = "chdir"
       ELSE /\ call' = 0
            /\ pc' = AfterEnv
    /\ UNCHANGED <<fixed, files, cwd, env, previous_path, candidates, candidate_times,
                   ret, osmesa_path, error, outside, history, cwd0, listing, scans>>

\* Linux: the join, print(osmesa_path) and the two assignments to os.environ
LinuxConfigure ==
    /\ pc = "join"
    /\ IsLinux(platform)
    /\ IF JoinRaises(ret)
       THEN /\ Raise("TypeError")
            /\ UNCHANGED <<env, osmesa_path, printed>>
       ELSE /\ osmesa_path' = PathJoinAll(ret, LinuxSuffix)
            /\ printed' = Append(printed, <<"osmesa_path", osmesa_path'>>)
            /\ env' = SetEnv(SetEnv(env, "LD_LIBRARY_PATH", osmesa_path'),
                             "GALLIUM_DRIVER", SOFTPIPE)
            /\ pc' = AfterEnv
            /\ error' = error
    /\ UNCHANGED <<fixed, files, cwd, call, previous_path, candidates, candidate_times,
                   ret, launched, rcs, history, cwd0, listing, scans, raced>>

\* macOS: osmesa_path = path.join(find_dep_path_newest(...), ...), then the
\* second find_dep_path_newest call
MacOsmesaPath ==
    /\ pc = "join"
    /\ ~IsLinux(platform) /\ IsMacosx(platform)
    /\ call = 1
    /\ IF JoinRaises(ret)
       THEN /\ Raise("TypeError")
            /\ UNCHANGED <<osmesa_path, call>>
       ELSE /\ osmesa_path' = PathJoinAll(ret, OsmesaSuffix)
            /\ call' = 2
            /\ pc' = "chdir"
            /\ error' = error
    /\ UNCHANGED <<fixed, files, cwd, env, previous_path, candidates, candidate_times,
                   ret, outside, history, cwd0, listing, scans, raced>>

\* macOS: glapi_path = path.join(find_dep_path_newest(...), ...) and the two
\* assignments to os.environ
MacConfigure ==
    /\ pc = "join"
    /\ ~IsLinux(platform) /\ IsMacosx(platform)
    /\ call = 2
    /\ IF JoinRaises(ret)
       THEN /\ Raise("TypeError")
            /\ UNCHANGED env
       ELSE /\ env' = SetEnv(SetEnv(env, "DYLD_LIBRARY_PATH",
                                    DyldValue(osmesa_path, PathJoinAll(ret, GlapiSuffix))),
                             "GALLIUM_DRIVER", SOFTPIPE)
            /\ pc' = AfterEnv
            /\ error' = error
    /\ UNCHANGED <<fixed, files, cwd, call, previous_path, candidates, candidate_times,
                   ret, osmesa_path, outside, history, cwd0, listing, scans, raced>>

Configure ==
    \/ SetOsmesaEnv
    \/ Chdir
    \/ Glob
    \/ ReadMtime
    \/ SortAndReturn
    \/ LinuxConfigure
    \/ MacOsmesaPath
    \/ MacConfigure

---------------------------------------------------------------------------
(* The two scripts *)

\* subprocess.check_call(cmd) with return code rc, going on at next
CheckCall(cmd, rc, next) ==
    /\ launched' = Append(launched, cmd)
    /\ rcs' = Append(rcs, rc)
    /\ IF CheckCallRaises(rc)
       THEN Raise("CalledProcessError")
       ELSE /\ pc' = next
            /\ error' = error
    /\ UNCHANGED <<fixed, files, cwd, env, locals, printed, history, raced>>

\* headless.py: cargo build
Build ==
    /\ pc = "build"
    /\ \E rc \in {0, 1} :
          CheckCall(<<"cargo", "build", "--release", "--features", "headless">>,
                    rc, "set_osmesa_env")

\* headless.py: wrench -h plus the caller's arguments
Launch ==
    /\ pc = "launch"
    /\ \E rc \in {0, 1} :
          CheckCall(<<"../target/release/wrench", "-h">> \o argv, rc, "done")

\* run_tests.py: wrench -t 1 -h show sys.argv[1]
Show ==
    /\ pc = "show"
    /\ IF Len(argv) < 1
       THEN /\ Raise("IndexError")
            /\ UNCHANGED <<fixed, files, cwd, env, locals, outside, history, raced>>
       ELSE \E rc \in {0, 1} :
               CheckCall(<<"../target/release/wrench", "-t", "1", "-h", "show", argv[1]>>,
                         rc, "reftest")

\* run_tests.py: wrench -h reftest
Reftest ==
    /\ pc = "reftest"
    /\ \E rc \in {0, 1} :
          CheckCall(<<"../target/release/wrench", "-h", "reftest">>, rc, "md5")

\* run_tests.py: print the md5 of screenshot.png (the digest itself is not modelled)
Md5 ==
    /\ pc = "md5"
    /\ \E readable \in BOOLEAN :
          IF readable
          THEN /\ printed' = Append(printed, <<"md5", <<>>>>)
               /\ pc' = "done"
               /\ error' = error
          ELSE /\ Raise("IOError")
               /\ UNCHANGED printed
    /\ UNCHANGED <<fixed, files, cwd, env, locals, launched, rcs, history, raced>>

Next ==
    \/ Configure
    \/ Build
    \/ Launch
    \/ Show
    \/ Reftest
    \/ Md5

Spec == Init /\ [][Next]_vars

---------------------------------------------------------------------------
(* The external build process: it changes the build directory while        *)
(* set_osmesa_env runs                                                     *)

Scanning == pc \in {"set_osmesa_env", "chdir", "glob", "getmtime", "join"}

ExternalStep ==
    /\ Scanning
    /\ ext < MaxExternal
    /\ ext' = ext + 1
    /\ raced' = (pc # "set_osmesa_env")
    /\ UNCHANGED <<fixed, cwd, env, pc, locals, error, outside, history>>

\* an entry is created, or its modified time changes
ExternalTouch ==
    /\ ExternalStep
    /\ buildExists
    /\ \E n \in Names, t \in 1..MaxTime :
          /\ entries' = [x \in DOMAIN entries \cup {n} |-> IF x = n THEN t ELSE entries[x]]
          /\ entries' # entries
    /\ UNCHANGED buildExists

\* an entry is removed
ExternalRemove ==
    /\ ExternalStep
    /\ \E n \in DOMAIN entries : entries' = [x \in DOMAIN entries \ {n} |-> entries[x]]
    /\ UNCHANGED buildExists

\* the build directory is removed with all it holds
ExternalClean ==
    /\ ExternalStep
    /\ buildExists
    /\ buildExists' = FALSE
    /\ entries' = <<>>

\* the build directory is created
ExternalMkdir ==
    /\ ExternalStep
    /\ ~buildExists
    /\ buildExists' = TRUE
    /\ entries' = <<>>

NextRace ==
    \/ Next
    \/ ExternalTouch
    \/ ExternalRemove
    \/ ExternalClean
    \/ ExternalMkdir

\* the directory holds some of N1, N2 when the script starts; the external
\* process may then create, touch or remove any of Names
InitRace ==
    /\ InitCommon
    /\ DOMAIN entries \subseteq {N1, N2}
    /\ env = EnvClean
    /\ script \in {"headless", "run_tests"}
    /\ argv \in Args
    /\ pc = IF script = "headless" THEN "build" ELSE "set_osmesa_env"

SpecRace == InitRace /\ [][NextRace]_vars

---------------------------------------------------------------------------
(* A driver that calls set_osmesa_env('../target/release/') twice, going on *)
(* to the second call whether or not the first one raised                  *)

InitTwice ==
    /\ InitCommon
    /\ script = "twice"
    /\ argv = <<>>
    /\ pc = "set_osmesa_env"

CallAgain ==
    /\ script = "twice"
    /\ round = 1
    /\ pc \in {"returned", "failed"}
    /\ round' = 2
    /\ env1' = env
    /\ pc' = "set_osmesa_env"
    /\ error' = "none"
    /\ UNCHANGED <<fixed, files, cwd, env, locals, outside, env0, raced>>

NextTwice ==
    \/ Configure
    \/ CallAgain

SpecTwice == InitTwice /\ [][NextTwice]_vars

---------------------------------------------------------------------------
(* What the claims speak of, written out independently of the operators    *)
(* above                                                                   *)

ExpectedDeps == <<46, 46, 47, 116, 97, 114, 103, 101, 116, 47, 114, 101, 108, 101, 97, 115, 101, 47, 98, 117, 105, 108, 100>>  \* '../target/release/build'
TailLinux == <<47, 111, 117, 116, 47, 108, 105, 98, 47, 103, 97, 108, 108, 105, 117, 109>>  \* '/out/lib/gallium'
TailOsmesa == <<47, 111, 117, 116, 47, 115, 114, 99, 47, 103, 97, 108, 108, 105, 117, 109, 47, 116, 97, 114, 103, 101, 116, 115, 47, 111, 115, 109, 101, 115, 97, 47, 46, 108, 105, 98, 115>>  \* '/out/src/gallium/targets/osmesa/.libs'
TailGlapi == <<47, 111, 117, 116, 47, 115, 114, 99, 47, 109, 97, 112, 105, 47, 115, 104, 97, 114, 101, 100, 45, 103, 108, 97, 112, 105, 47, 46, 108, 105, 98, 115>>  \* '/out/src/mapi/shared-glapi/.libs'

\* the name starts with 'osmesa-src-'
HasPrefixDash(n) ==
    /\ Len(n) > Len(PACKAGE)
    /\ \A i \in 1..Len(PACKAGE) : n[i] = PACKAGE[i]
    /\ n[Len(PACKAGE) + 1] = 45

Matching == {n \in DOMAIN entries : HasPrefixDash(n)}

\* the build directory joined with an entry name
PathOf(n) == ExpectedDeps \o <<47>> \o n

\* string order of the entry names (and so of their paths):
\* 'osmesa-src' < 'osmesa-src-1' < 'osmesa-src-10' < 'osmesa-src-2'
NameRank(n) == CASE n = N4 -> 0 [] n = N1 -> 1 [] n = N3 -> 2 [] n = N2 -> 3

DistinctTimes == \A a, b \in Matching : a # b => entries[a] # entries[b]

\* the matching entry that is greatest by (modified time, path)
Best ==
    CHOOSE n \in Matching :
        \A m \in Matching \ {n} :
            \/ entries[m] < entries[n]
            \/ entries[m] = entries[n] /\ NameRank(m) < NameRank(n)

ExpectedLinux == PathOf(Best) \o TailLinux
DyldOf(a, b) == PathOf(a) \o TailOsmesa \o <<58>> \o PathOf(b) \o TailGlapi

LinuxPlatform == platform \in {LINUX, LINUX2}
JustConfigured == pc \in {"launch", "show", "returned"}

BuildCmd == <<"cargo", "build", "--release", "--features", "headless">>
WrenchCmd == <<"../target/release/wrench", "-h">> \o argv
ShowCmd == <<"../target/release/wrench", "-t", "1", "-h", "show", argv[1]>>
ReftestCmd == <<"../target/release/wrench", "-h", "reftest">>
Plan ==
    IF script = "headless" THEN <<BuildCmd, WrenchCmd>>
    ELSE IF argv = <<>> THEN <<>>
    ELSE <<ShowCmd, ReftestCmd>>
WrenchLaunched == \E i \in 1..Len(launched) : launched[i][1] = "../target/release/wrench"
Md5Printed == \E i \in 1..Len(printed) : printed[i][1] = "md5"

---------------------------------------------------------------------------
(* Claims *)

\* C1: when find_dep_path_newest returns and the matching entries have
\* pairwise distinct modified times, the value returned is the path of the
\* matching entry with the greatest modified time; the path of an entry that
\* does not start with 'osmesa-src-' is never returned.
C1_NewestWins ==
    pc = "join" =>
        /\ (DistinctTimes /\ Matching # {}) =>
              \E n \in Matching :
                 /\ ret = PathOf(n)
                 /\ \A m \in Matching : entries[m] <= entries[n]
        /\ \A n \in DOMAIN entries \ Matching : ret # PathOf(n)

C1_Witness ==
    /\ pc = "join"
    /\ DOMAIN entries = {N1, N2, N4}
    /\ entries[N1] = 2 /\ entries[N2] = 1 /\ entries[N4] = 2
    /\ listing = <<N2, N1>>
    /\ ret = PathOf(N1)

\* C2 as stated: when the build directory does not exist, a call of
\* find_dep_path_newest ends by returning None, without raising.
C2_AbsentBuildGivesNone ==
    (~buildExists /\ scans > 0) => (ret = None /\ error = "none")

\* C2 amended: when the build directory does not exist, a call of
\* find_dep_path_newest returns nothing: the change into the build directory
\* raises OSError, which ends the run, with the working directory as before.
C2_AbsentBuildRaises ==
    (~buildExists /\ scans > 0) =>
        /\ pc = "failed"
        /\ error = "OSError"
        /\ ret = NoValue
        /\ cwd = cwd0

C2_Witness ==
    /\ ~buildExists
    /\ scans = 1
    /\ pc = "failed"
    /\ error = "OSError"

\* C3: when the build directory exists and holds no entry starting with
\* 'osmesa-src-', find_dep_path_newest reads no modified time, raises nothing
\* and returns None.
C3_NoMatchGivesNone ==
    (buildExists /\ Matching = {} /\ scans > 0) =>
        /\ candidates = <<>>
        /\ pc = "glob" \/ pc = "getmtime" \/ ret = None
        /\ error # "OSError"

C3_Witness ==
    /\ buildExists
    /\ DOMAIN entries = {N4}
    /\ pc = "join"
    /\ ret = None

\* C4: outside the with block of find_dep_path_newest, whether the call
\* returned a path, returned None or raised, the working directory is the one
\* the call started in.
C4_CwdRestored == pc # "glob" => cwd = cwd0

C4_Witness ==
    /\ pc = "failed"
    /\ error = "OSError"
    /\ buildExists
    /\ listing # <<>>
    /\ cwd = cwd0

\* C5: when set_osmesa_env has returned, the environment is the one the script
\* started with except for LD_LIBRARY_PATH and GALLIUM_DRIVER on Linux, and
\* DYLD_LIBRARY_PATH and GALLIUM_DRIVER on macOS, which hold the values built
\* from the newest osmesa-src entry; on any other platform the environment is
\* unchanged, no scan was made and no error comes from set_osmesa_env.
C5_ExactVariables ==
    /\ JustConfigured =>
          IF LinuxPlatform
          THEN /\ Matching # {}
               /\ env = [env0 EXCEPT !["LD_LIBRARY_PATH"] = ExpectedLinux,
                                     !["GALLIUM_DRIVER"] = SOFTPIPE]
          ELSE IF platform = DARWIN
          THEN /\ Matching # {}
               /\ env = [env0 EXCEPT !["DYLD_LIBRARY_PATH"] = DyldOf(Best, Best),
                                     !["GALLIUM_DRIVER"] = SOFTPIPE]
          ELSE env = env0
    /\ (~LinuxPlatform /\ platform # DARWIN) =>
          /\ scans = 0
          /\ env = env0
          /\ error \notin {"OSError", "TypeError"}
          /\ pc \notin {"chdir", "glob", "getmtime", "join"}

C5_Witness ==
    /\ pc = "show"
    /\ platform = DARWIN
    /\ env0 = EnvPreset
    /\ env["DYLD_LIBRARY_PATH"] = DyldOf(N2, N2)
    /\ env["LD_LIBRARY_PATH"] = USR_LIB
    /\ env["GALLIUM_DRIVER"] = SOFTPIPE

\* C6: on Linux, when find_dep_path_newest has returned None, set_osmesa_env
\* raises and the environment is the one the script started with.
C6_LinuxMissingDepFails ==
    (LinuxPlatform /\ ret = None /\ pc # "join") =>
        /\ pc = "failed"
        /\ error = "TypeError"
        /\ env = env0

C6_Witness ==
    /\ platform = LINUX2
    /\ buildExists
    /\ ret = None
    /\ pc = "failed"
    /\ error = "TypeError"
    /\ env0 = EnvPreset
    /\ env = env0

\* C7: the commands are launched in the order of the script; a non-zero return
\* code is the last thing that happens and ends the run as failed; nothing is
\* scanned after a failed build; wrench is launched only after a successful
\* build and a successful set_osmesa_env; the md5 is printed only after both
\* launches of run_tests.py returned zero.
C7_StopAtFirstFailure ==
    /\ Len(launched) <= Len(Plan) /\ launched = SubSeq(Plan, 1, Len(launched))
    /\ Len(rcs) = Len(launched)
    /\ \A i \in 1..Len(rcs) : rcs[i] # 0 => (i = Len(rcs) /\ pc = "failed")
    /\ (pc = "failed") = (error # "none")
    /\ (script = "headless" /\ (scans > 0 \/ pc \in {"set_osmesa_env", "launch", "done"})) =>
          (Len(rcs) >= 1 /\ rcs[1] = 0)
    /\ error \in {"OSError", "TypeError"} => ~WrenchLaunched
    /\ WrenchLaunched =>
          /\ LinuxPlatform =>
                (scans = 1 /\ Matching # {} /\ env["LD_LIBRARY_PATH"] = ExpectedLinux)
          /\ platform = DARWIN =>
                (scans = 2 /\ Matching # {} /\ env["DYLD_LIBRARY_PATH"] = DyldOf(Best, Best))
    /\ Md5Printed => (launched = <<ShowCmd, ReftestCmd>> /\ rcs = <<0, 0>>)
    /\ pc = "done" => (launched = Plan /\ \A i \in 1..Len(rcs) : rcs[i] = 0)

C7_Witness ==
    /\ script = "run_tests"
    /\ LinuxPlatform
    /\ rcs = <<0, 1>>
    /\ pc = "failed"
    /\ error = "CalledProcessError"
    /\ ~Md5Printed

\* C8: with the platform and the build directory unchanged, after the second
\* of two set_osmesa_env calls every environment variable has the value it had
\* after the first call.
C8_Idempotent ==
    (round = 2 /\ pc \in {"returned", "failed"}) => env = env1

C8_Witness ==
    /\ round = 2
    /\ pc = "returned"
    /\ platform = LINUX
    /\ env0 = EnvPreset
    /\ env["LD_LIBRARY_PATH"] = PathOf(N3) \o TailLinux
    /\ listing = <<N1, N3>>

\* C9 as stated: on macOS, whenever set_osmesa_env has returned, the two paths
\* in DYLD_LIBRARY_PATH lie under one and the same entry of the build
\* directory, whatever the external build process did in between.
C9_SameDirUnderRace ==
    (platform = DARWIN /\ JustConfigured) =>
        \E n \in Names : env["DYLD_LIBRARY_PATH"] = DyldOf(n, n)

\* C9 amended: on macOS, when set_osmesa_env has returned and the external
\* build process changed nothing in the build directory while it ran, the two
\* paths in DYLD_LIBRARY_PATH lie under one and the same entry.
C9_SameDirWithoutRace ==
    (platform = DARWIN /\ JustConfigured /\ ~raced) =>
        \E n \in Names : env["DYLD_LIBRARY_PATH"] = DyldOf(n, n)

C9_Witness ==
    /\ platform = DARWIN
    /\ pc = "show"
    /\ ext = 1
    /\ ~raced
    /\ Cardinality(Matching) >= 2
    /\ env["DYLD_LIBRARY_PATH"] = DyldOf(Best, Best)

\* C10: whatever the order of the listing, find_dep_path_newest returns the
\* matching entry with the greatest modified time and, among those of that
\* modified time, the one whose path is greatest in string order.
C10_TieBreakByPath ==
    (pc = "join" /\ Matching # {}) => ret = PathOf(Best)

C10_Witness ==
    /\ pc = "join"
    /\ DOMAIN entries = {N1, N2, N3}
    /\ entries[N1] = entries[N2] /\ entries[N2] = entries[N3]
    /\ listing = <<N3, N2, N1>>
    /\ ret = PathOf(N2)

=============================================================================
